---- MODULE Spec2Model ----
(***************************************************************************)
(* Model of the block pool (allocate_space / free_context_blk) and of the  *)
(* packaged invocation built on it (package_context, run_context,          *)
(* reset_context, refresh_context and their compound forms) of context.c,  *)
(* pool build (no USE_MALLOC).                                             *)
(*                                                                         *)
(* The specifications share the actions: Spec (create, release, run, reset,*)
(* refresh and the caller's writes, every input, BLKS slots), SpecCR (create*)
(* and release alone, PoolBLKS slots), SpecRun (create, run, release and the*)
(* caller's writes), SpecFn (blocks with and without a target function, run,*)
(* run and release), SpecRel (create and release, with release requests for*)
(* addresses that hold no block of the caller, PoolBLKS slots) and SpecOps *)
(* (every operation of context.h on blocks of one caller buffer).          *)
(*                                                                         *)
(* Memory is modelled word by word: one cell of mem is one uint64_t of     *)
(* space[][] (space_blk_t is uint64_t[32], user_context is uint64_t[]).    *)
(* All sizes are counted in words.  The header context_blk_t is five       *)
(* words, one per field.  The pool is scaled down: BLKS slots of BLK_SIZE  *)
(* words instead of 64 slots of 32 words.                                  *)
(***************************************************************************)
EXTENDS Integers, FiniteSets, Sequences, TLC

\* ------------------------------------------------------------------ bounds
\* number of slots of the pool (64 in context.c, scaled down) when whole blocks
\* with their memory are modelled
BLKS == 3
\* number of slots of the pool when only blocks are created and released
PoolBLKS == 5
\* words per slot (sizeof(space_blk_t) / 8 = 32 in context.c, scaled down)
BLK_SIZE == 7
\* words of every caller buffer
BufLen == 1
\* the counter kept in the data region is not incremented beyond MaxVal
MaxVal == 5

\* ------------------------------------------------------- program constants
\* sizeof(context_blk_t) in words: target_func, original_context, workspace,
\* size, workspace_size
HDR == 5
\* word offsets of the header fields inside a block
F_FUNC == 0
F_ORIG == 1
F_WORK == 2
F_SIZE == 3
F_WSSZ == 4
\* the null pointer, as a function pointer and as a data pointer
NULL == 0
\* the address of ctx_func, the packaged function of the tests
CTX_FUNC == 1
\* what allocate_space returns for "could not allocate" (a slot index is >= 0)
NOBLK == 0 - 1

\* ------------------------------------------------------------ input domains
\* the number of slots of a slot table
Cap(use) == Cardinality(DOMAIN use)
\* the caller's buffers; a buffer's address is its number
Bufs == {1, 2}
\* values the caller stores in its buffers
DataVals == {3, 4}
\* data sizes passed to package_context
UcSizes == 1 .. BufLen
\* workspace requests passed to package_context for a pool of cap slots: 0, one
\* that makes the total an exact multiple of the slot size, and whole slots, so
\* that every slot count from 1 to cap is asked for
WsReqs(cap) == {0, BLK_SIZE - HDR - 1} \cup { k * BLK_SIZE : k \in 1 .. (cap - 1) }
\* function pointers passed to package_context
Funcs == {NULL, CTX_FUNC}
\* what a read beyond the end of a caller buffer may deliver
Garbage == {0, 2}

VARIABLES
    in_use,   \* in_use[i]: 0 free, 1 owned, 2 claimed by a scan
    mem,      \* space[][], word by word
    cbuf,     \* the caller's buffers (the objects original_context points to)
    held,     \* the blocks the caller holds: what it passed and was granted
    halted,   \* the program was aborted (assert, invalid pointer)
    last      \* the operation that just completed, its arguments and result

vars == <<in_use, mem, cbuf, held, halted, last>>

\* &space[i] as a word offset
Addr(i) == i * BLK_SIZE

\* memset(&a[from], v, n) on a function over an integer range; bytes that would
\* fall outside the array are dropped here and handled by the callers
memset(a, from, v, n) ==
    [k \in DOMAIN a |-> IF k >= from /\ k < from + n THEN v ELSE a[k]]

\* ------------------------------------------------------------ allocate_space
RECURSIVE Inner(_, _, _, _)
\* the inner for loop of allocate_space, entered with in_use[i] claimed; insp
\* counts the reads of in_use[j] it makes
Inner(use, i, j, quot) ==
    IF j >= Cap(use)
    THEN [kind |-> "end", use |-> use, i |-> i, insp |-> 0]
    ELSE IF j = i + quot
    THEN [kind |-> "found", use |-> memset(use, i, 1, quot), i |-> i, insp |-> 0]
    ELSE IF use[j] # 0
    THEN [kind |-> "break", use |-> memset(use, i, 0, j - i), i |-> j, insp |-> 1]
    ELSE LET r == Inner([use EXCEPT ![j] = 2], i, j + 1, quot)
         IN  [r EXCEPT !.insp = @ + 1]

RECURSIVE Scan(_, _, _)
\* a variant of Scan that, after a blocked attempt at i, resumes at i + 1
\* instead of beyond the blocking slot
Scan_rescan(use, i, quot) ==
    IF i >= Cap(use)
    THEN [blk |-> NOBLK, use |-> use, insp |-> 0, starts |-> << >>, blocks |-> << >>]
    ELSE IF use[i] = 0
    THEN LET r == Inner([use EXCEPT ![i] = 2], i, i + 1, quot)
         IN  IF r.kind = "found"
             THEN [blk |-> r.i, use |-> r.use, insp |-> 1 + r.insp,
                   starts |-> <<i>>, blocks |-> <<NOBLK>>]
             ELSE LET s == Scan(r.use, i + 1, quot)
                  IN  [s EXCEPT !.insp = @ + 1 + r.insp,
                                !.starts = <<i>> \o @,
                                !.blocks = <<IF r.kind = "break" THEN r.i ELSE NOBLK>> \o @]
    ELSE LET s == Scan(use, i + 1, quot)
         IN  [s EXCEPT !.insp = @ + 1]

\* the outer for loop of allocate_space; insp counts the reads of in_use[] of
\* both loops, starts lists the indices i at which an attempt started, blocks
\* the slot that blocked each attempt (NOBLK when none did)
Scan(use, i, quot) ==
    IF i >= Cap(use)
    THEN [blk |-> NOBLK, use |-> use, insp |-> 0, starts |-> << >>, blocks |-> << >>]
    ELSE IF use[i] = 0
    THEN LET r == Inner([use EXCEPT ![i] = 2], i, i + 1, quot)
         IN  IF r.kind = "found"
             THEN [blk |-> r.i, use |-> r.use, insp |-> 1 + r.insp,
                   starts |-> <<i>>, blocks |-> <<NOBLK>>]
             ELSE LET s == Scan(r.use, r.i + 1, quot)
                  IN  [s EXCEPT !.insp = @ + 1 + r.insp,
                                !.starts = <<i>> \o @,
                                !.blocks = <<IF r.kind = "break" THEN r.i ELSE NOBLK>> \o @]
    ELSE LET s == Scan(use, i + 1, quot)
         IN  [s EXCEPT !.insp = @ + 1]

\* a variant of Quot that forgets to round the quotient up
Quot_floor(needed) ==
    needed \div BLK_SIZE

\* ldiv and the rounding up of the quotient
Quot(needed) ==
    IF needed % BLK_SIZE # 0 THEN (needed \div BLK_SIZE) + 1 ELSE needed \div BLK_SIZE

\* a variant of allocate_space whose scan starts at slot 1
allocate_space_from1(use, needed) ==
    LET quot == Quot(needed)
        s    == Scan(use, 1, quot)
    IN  [blk |-> s.blk, use |-> s.use, needed |-> quot * BLK_SIZE, scan |-> s]

\* allocate_space(&needed): the block, the slot table and the extended *needed
allocate_space(use, needed) ==
    LET quot == Quot(needed)
        s    == Scan(use, 0, quot)
    IN  [blk |-> s.blk, use |-> s.use, needed |-> quot * BLK_SIZE, scan |-> s]

\* ---------------------------------------------------------- free_context_blk
\* a variant of free_slots that clears one slot too few
free_slots_short(use, index, size) ==
    memset(use, index, 0, (size \div BLK_SIZE) - 1)

\* a variant of free_slots that also frees the slot after the block
free_slots_wide(use, index, size) ==
    memset(use, index, 0, (size \div BLK_SIZE) + 1)

\* the slot table after free_context_blk of the block at slot index, whose header
\* holds size
free_slots(use, index, size) ==
    memset(use, index, 0, size \div BLK_SIZE)

\* ------------------------------------------------------------ package_context
\* the header written by the compound literal
header(func, buf, base, uc_size, total, workspace_size) ==
    [k \in 0 .. (HDR - 1) |->
        CASE k = F_FUNC -> func
          [] k = F_ORIG -> buf
          [] k = F_WORK -> base + HDR + uc_size
          [] k = F_SIZE -> total
          [] OTHER      -> workspace_size]

\* a variant of package_mem without the memset of the workspace
package_mem_nozero(m, base, func, buf, uc_size, total, workspace_size) ==
    [w \in DOMAIN m |->
        IF w >= base /\ w < base + HDR
        THEN header(func, buf, base, uc_size, total, workspace_size)[w - base]
        ELSE IF w >= base + HDR /\ w < base + HDR + uc_size
        THEN cbuf[buf][w - base - HDR]
        ELSE m[w]]

\* mem after the header memcpy, the data memcpy and the workspace memset
package_mem(m, base, func, buf, uc_size, total, workspace_size) ==
    [w \in DOMAIN m |->
        IF w >= base /\ w < base + HDR
        THEN header(func, buf, base, uc_size, total, workspace_size)[w - base]
        ELSE IF w >= base + HDR /\ w < base + HDR + uc_size
        THEN cbuf[buf][w - base - HDR]
        ELSE IF w >= base + HDR + uc_size /\ w < base + HDR + uc_size + workspace_size
        THEN 0
        ELSE m[w]]

NoHandle == [live |-> FALSE, uc_size |-> 0, slots |-> 0, buf |-> 0]

\* the record of a completed call: its name, the block it was given, the
\* arguments, the result; pre: the slot table before a create; dirty: some word
\* of the granted workspace was not zero before a create; streak, base: the
\* number of run calls in a row on blk, a block that packages ctx_func, and the
\* counter before the first of them; fresh: a release that directly follows the
\* create of its block; insp, starts, blocks: the scan of a create
Op(name, blk, func, buf, uc_size, ws, res) ==
    [op |-> name, blk |-> blk, func |-> func, buf |-> buf, uc_size |-> uc_size,
     ws |-> ws, res |-> res, pre |-> << >>, dirty |-> FALSE, streak |-> 0,
     base |-> 0, fresh |-> FALSE, insp |-> 0, starts |-> << >>, blocks |-> << >>]

\* the words of the workspace region of a block at base
ws_words(base, uc_size, workspace_size) ==
    (base + HDR + uc_size) .. (base + HDR + uc_size + workspace_size - 1)

package_context(func, buf, uc_size, workspace) ==
    LET total0 == HDR + uc_size + workspace
        a      == allocate_space(in_use, total0)
        total  == a.needed
        wssz   == total - (HDR + uc_size)
    IN  /\ ~halted
        /\ in_use' = a.use
        /\ IF a.blk # NOBLK
           THEN /\ mem' = package_mem(mem, Addr(a.blk), func, buf, uc_size, total, wssz)
                /\ held' = [held EXCEPT ![a.blk] =
                              [live |-> TRUE, uc_size |-> uc_size,
                               slots |-> total \div BLK_SIZE, buf |-> buf]]
           ELSE UNCHANGED <<mem, held>>
        /\ last' = [Op("create", a.blk, func, buf, uc_size, workspace, a.blk)
                      EXCEPT !.dirty = /\ a.blk # NOBLK
                                       /\ \E w \in ws_words(Addr(a.blk), uc_size, wssz) :
                                              mem[w] # 0,
                             !.pre = in_use,
                             !.insp = a.scan.insp,
                             !.starts = a.scan.starts,
                             !.blocks = a.scan.blocks]
        /\ UNCHANGED <<cbuf, halted>>

\* ---------------------------------------------------------- free_context_blk
\* free_context_blk(blk) for a block the caller holds: blk is &space[b], so the
\* index is b and the alignment test passes; the count comes from the header
free_context_blk(b) ==
    LET size == mem[Addr(b) + F_SIZE]
    IN  /\ ~halted
        /\ held[b].live
        /\ IF b + (size \div BLK_SIZE) > Cap(in_use)
           THEN \* memset beyond the end of in_use[]
                /\ halted' = TRUE
                /\ UNCHANGED in_use
           ELSE /\ in_use' = free_slots(in_use, b, size)
                /\ UNCHANGED halted
        /\ held' = [held EXCEPT ![b] = NoHandle]
        /\ last' = [Op("release", b, NULL, 0, 0, 0, b)
                      EXCEPT !.fresh = last.op = "create" /\ last.res = b]
        /\ UNCHANGED <<mem, cbuf>>

\* free_context_blk(&space[b]) for a slot address at which the caller holds no
\* block: the index is b, the alignment test passes, and the count comes from
\* whatever the header words of slot b hold; no test tells a live block from a
\* released one
free_context_blk_stale(b) ==
    LET size == mem[Addr(b) + F_SIZE]
    IN  /\ ~halted
        /\ ~held[b].live
        /\ IF b + (size \div BLK_SIZE) > Cap(in_use)
           THEN /\ halted' = TRUE
                /\ UNCHANGED in_use
           ELSE /\ in_use' = free_slots(in_use, b, size)
                /\ UNCHANGED halted
        /\ last' = Op("release_stale", b, NULL, 0, 0, 0, b)
        /\ UNCHANGED <<mem, cbuf, held>>

\* free_context_blk on the address of word w of space[], not a slot boundary:
\* &space[index] differs from blk and the assert of the else branch fails; a
\* build with NDEBUG returns instead
free_context_blk_unaligned(w) ==
    /\ ~halted
    /\ w % BLK_SIZE # 0
    /\ halted' \in BOOLEAN
    /\ last' = Op("release_unaligned", w \div BLK_SIZE, NULL, 0, 0, 0, NOBLK)
    /\ UNCHANGED <<in_use, mem, cbuf, held>>

\* ---------------------------------------------------------------- run_context
\* ctx_func: increments the counter (u2) in the first word of user_context; the
\* Unity assertions around the increment belong to the test harness
ctx_func(m, base) ==
    [m EXCEPT ![base + HDR] = m[base + HDR] + 1]

\* a variant of call_target that copies the first data word from the original
\* again before it calls the function
call_target_recopy(m, base) ==
    LET func == m[base + F_FUNC]
        orig == m[base + F_ORIG]
        m0   == IF orig \in Bufs THEN [m EXCEPT ![base + HDR] = cbuf[orig][0]] ELSE m
    IN  IF func = NULL THEN [ok |-> TRUE, mem |-> m0]
        ELSE IF func = CTX_FUNC THEN [ok |-> TRUE, mem |-> ctx_func(m0, base)]
        ELSE [ok |-> FALSE, mem |-> m]

\* a variant of call_target without the test for an unset function
call_target_unchecked(m, base) ==
    LET func == m[base + F_FUNC]
    IN  IF func = CTX_FUNC THEN [ok |-> TRUE, mem |-> ctx_func(m, base)]
        ELSE [ok |-> FALSE, mem |-> m]

\* the effect of the call blk->target_func(blk) on mem; a pointer that is
\* neither NULL nor a function cannot be called
call_target(m, base) ==
    LET func == m[base + F_FUNC]
    IN  IF func = NULL THEN [ok |-> TRUE, mem |-> m]
        ELSE IF func = CTX_FUNC THEN [ok |-> TRUE, mem |-> ctx_func(m, base)]
        ELSE [ok |-> FALSE, mem |-> m]

run_context(b) ==
    LET r == call_target(mem, Addr(b))
    IN  /\ ~halted
        /\ held[b].live
        /\ mem[Addr(b) + F_FUNC] = CTX_FUNC => mem[Addr(b) + HDR] < MaxVal
        /\ mem' = r.mem
        /\ halted' = ~r.ok
        /\ last' = [Op("run", b, NULL, 0, 0, 0, b)
                      EXCEPT !.streak = IF mem[Addr(b) + F_FUNC] # CTX_FUNC THEN 0
                                        ELSE IF last.blk = b /\ last.streak > 0
                                        THEN last.streak + 1 ELSE 1,
                             !.base = IF mem[Addr(b) + F_FUNC] # CTX_FUNC THEN 0
                                      ELSE IF last.blk = b /\ last.streak > 0
                                      THEN last.base ELSE mem[Addr(b) + HDR]]
        /\ UNCHANGED <<in_use, cbuf, held>>

\* -------------------------------------------------------------- reset_context
\* word k of the object at original_context: the caller's buffer, and beyond
\* its end whatever lies there
read_orig(buf, k, g) ==
    IF k < BufLen THEN cbuf[buf][k] ELSE g

\* memcpy(blk->user_context, blk->original_context, blk->size): size is the
\* granted total, so the copy reads beyond the caller's buffer and writes HDR + the
\* workspace words beyond the data, into the slot that follows the block; words
\* that would be written beyond space[] land in objects outside the model
copy_original(m, base, g) ==
    LET orig == m[base + F_ORIG]
        size == m[base + F_SIZE]
    IN  [w \in DOMAIN m |->
            IF w >= base + HDR /\ w < base + HDR + size
            THEN read_orig(orig, w - base - HDR, g)
            ELSE m[w]]

\* the source pointer of the memcpy can be read
orig_readable(m, base) ==
    m[base + F_SIZE] = 0 \/ m[base + F_ORIG] \in Bufs

reset_body(b, name, nbuf) ==
    /\ ~halted
    /\ held[b].live
    /\ IF orig_readable(mem, Addr(b))
       THEN /\ \E g \in Garbage : mem' = copy_original(mem, Addr(b), g)
            /\ UNCHANGED halted
       ELSE /\ halted' = TRUE
            /\ UNCHANGED mem
    /\ last' = Op(name, b, NULL, nbuf, 0, 0, b)
    /\ UNCHANGED <<in_use, cbuf, held>>

reset_context(b) == reset_body(b, "reset", 0)

\* ------------------------------------------------------------ refresh_context
\* the user_context argument is the address of the caller buffer nbuf
refresh_context(b, nbuf) == reset_body(b, "refresh", nbuf)

\* ---------------------------------- reset_and_clear, refresh_and_clear
\* memset(&((uint8_t*)blk->user_context)[blk->size], 0, blk->workspace_size):
\* the zeroed range starts blk->size beyond user_context, HDR beyond the end of
\* the block, and is workspace_size long; words of it beyond space[] land in
\* objects outside the model
clear_workspace(m, base) ==
    LET size == m[base + F_SIZE]
        wssz == m[base + F_WSSZ]
    IN  [w \in DOMAIN m |->
            IF w >= base + HDR + size /\ w < base + HDR + size + wssz
            THEN 0
            ELSE m[w]]

\* the zeroed range of clear_workspace stays inside space[]
clear_inside(m, base) ==
    \/ m[base + F_WSSZ] = 0
    \/ base + HDR + m[base + F_SIZE] + m[base + F_WSSZ] - 1 \in DOMAIN m

\* reset_context or refresh_context, then the memset; a memset that leaves
\* space[] may also stop the program
reset_clear_body(b, name, nbuf) ==
    /\ ~halted
    /\ held[b].live
    /\ IF orig_readable(mem, Addr(b))
       THEN /\ \E g \in Garbage :
                 mem' = clear_workspace(copy_original(mem, Addr(b), g), Addr(b))
            /\ IF clear_inside(mem, Addr(b))
               THEN UNCHANGED halted
               ELSE halted' \in BOOLEAN
       ELSE /\ halted' = TRUE
            /\ UNCHANGED mem
    /\ last' = Op(name, b, NULL, nbuf, 0, 0, b)
    /\ UNCHANGED <<in_use, cbuf, held>>

reset_and_clear_context(b) == reset_clear_body(b, "reset_clear", 0)

refresh_and_clear_context(b, nbuf) == reset_clear_body(b, "refresh_clear", nbuf)

\* ------------------------------------------------------ reset_and_run_context
\* reset_context(blk); run_context(blk)
reset_and_run_context(b) ==
    /\ ~halted
    /\ held[b].live
    /\ IF orig_readable(mem, Addr(b))
       THEN \E g \in Garbage :
               LET m1 == copy_original(mem, Addr(b), g)
                   r  == call_target(m1, Addr(b))
               IN  /\ mem' = r.mem
                   /\ halted' = ~r.ok
       ELSE /\ halted' = TRUE
            /\ UNCHANGED mem
    /\ last' = Op("reset_run", b, NULL, 0, 0, 0, b)
    /\ UNCHANGED <<in_use, cbuf, held>>

\* ------------------------------------------------------- run_context_and_free
\* the target function is called when it is set, then free_context_blk(blk)
\* releases the slots the header counts; calls counts the calls of the function
run_context_and_free(b) ==
    LET r    == call_target(mem, Addr(b))
        size == r.mem[Addr(b) + F_SIZE]
    IN  /\ ~halted
        /\ held[b].live
        /\ mem[Addr(b) + F_FUNC] = CTX_FUNC => mem[Addr(b) + HDR] < MaxVal
        /\ mem' = r.mem
        /\ IF ~r.ok
           THEN /\ halted' = TRUE
                /\ UNCHANGED in_use
           ELSE IF b + (size \div BLK_SIZE) > Cap(in_use)
           THEN /\ halted' = TRUE
                /\ UNCHANGED in_use
           ELSE /\ in_use' = free_slots(in_use, b, size)
                /\ UNCHANGED halted
        /\ held' = [held EXCEPT ![b] = NoHandle]
        /\ last' = [Op("run_free", b, mem[Addr(b) + F_FUNC], 0, 0, 0, b)
                      EXCEPT !.streak = IF r.ok /\ mem[Addr(b) + F_FUNC] # NULL
                                        THEN 1 ELSE 0,
                             !.base = held[b].slots]
        /\ UNCHANGED cbuf

\* --------------------------------------------------------------- the caller
\* the caller stores a larger value v in word k of its buffer buf
caller_write(buf, k, v) ==
    /\ ~halted
    /\ cbuf[buf][k] < v
    /\ cbuf' = [cbuf EXCEPT ![buf][k] = v]
    /\ last' = Op("write", NOBLK, NULL, buf, 0, 0, NOBLK)
    /\ UNCHANGED <<in_use, mem, held, halted>>

\* the state at program start for a pool of cap slots: the static arrays are
\* zero, the caller's buffer b holds 2 + b in every word
InitCap(cap) ==
    /\ in_use = [i \in 0 .. (cap - 1) |-> 0]
    /\ mem = [w \in 0 .. (cap * BLK_SIZE - 1) |-> 0]
    /\ cbuf = [b \in Bufs |-> [k \in 0 .. (BufLen - 1) |-> 2 + b]]
    /\ held = [i \in 0 .. (cap - 1) |-> NoHandle]
    /\ halted = FALSE
    /\ last = Op("init", NOBLK, NULL, 0, 0, 0, NOBLK)

Init == InitCap(BLKS)

InitPool == InitCap(PoolBLKS)

Create ==
    \E func \in Funcs, buf \in Bufs, uc_size \in UcSizes, workspace \in WsReqs(Cap(in_use)) :
        package_context(func, buf, uc_size, workspace)

Release == \E b \in DOMAIN in_use : free_context_blk(b)

Run == \E b \in DOMAIN in_use : run_context(b)

Reset == \E b \in DOMAIN in_use : reset_context(b)

Refresh == \E b \in DOMAIN in_use, nbuf \in Bufs : refresh_context(b, nbuf)

CallerWrite == \E buf \in Bufs, k \in 0 .. (BufLen - 1), v \in DataVals : caller_write(buf, k, v)

Next == Create \/ Release \/ Run \/ Reset \/ Refresh \/ CallerWrite

Spec == Init /\ [][Next]_vars

\* the pool alone: blocks of every slot count, all packaging ctx_func and the
\* first word of buffer 1, are only created and released
CreatePool ==
    \E workspace \in WsReqs(Cap(in_use)) : package_context(CTX_FUNC, 1, 1, workspace)

NextCR == CreatePool \/ Release

SpecCR == InitPool /\ [][NextCR]_vars

\* blocks that package ctx_func are created, run and released while the caller
\* changes its buffer
NextRun == CreatePool \/ Release \/ Run \/ CallerWrite

SpecRun == Init /\ [][NextRun]_vars

ReleaseStale == \E b \in DOMAIN in_use : free_context_blk_stale(b)

ReleaseUnaligned == \E w \in DOMAIN mem : free_context_blk_unaligned(w)

\* the specification of the pool with release requests for addresses that are
\* not blocks of the caller
NextRel == CreatePool \/ Release \/ ReleaseStale \/ ReleaseUnaligned

SpecRel == InitPool /\ [][NextRel]_vars

ResetAndClear == \E b \in DOMAIN in_use : reset_and_clear_context(b)

RefreshAndClear == \E b \in DOMAIN in_use, nbuf \in Bufs : refresh_and_clear_context(b, nbuf)

ResetAndRun == \E b \in DOMAIN in_use : reset_and_run_context(b)

RunAndFree == \E b \in DOMAIN in_use : run_context_and_free(b)

\* blocks with either target function, set or unset
CreateFn ==
    \E func \in Funcs, workspace \in WsReqs(Cap(in_use)) :
        package_context(func, 1, 1, workspace)

\* the specification of running: blocks with and without a target function,
\* run, run and release, release
NextFn == CreateFn \/ Release \/ Run \/ RunAndFree

SpecFn == Init /\ [][NextFn]_vars

\* the specification of every operation on blocks of one caller buffer that
\* package ctx_func: with the reset and refresh that clear, reset and run, run
\* and release
NextOps ==
    \/ CreatePool
    \/ Release
    \/ Run
    \/ Reset
    \/ Refresh
    \/ ResetAndClear
    \/ RefreshAndClear
    \/ ResetAndRun
    \/ RunAndFree
    \/ CallerWrite

SpecOps == Init /\ [][NextOps]_vars

\* ------------------------------------------------------------------- claims
\* the slot count package_context asked for in the call recorded in op
AskedSlots(op) == Quot(HDR + op.uc_size + op.ws)

\* slots i .. i+n-1 exist and are all free in the slot table use
FreeRun(use, i, n) ==
    /\ i + n <= Cap(use)
    /\ \A k \in i .. (i + n - 1) : use[k] = 0

\* the call that just completed is a create that returned a block
Created == last.op = "create" /\ last.res # NOBLK

\* C1: a create that fails with OutOfSpace leaves every slot of in_use[] as it
\* was before the call.
C1_FailedCreateKeepsTable ==
    [][(last'.op = "create" /\ last'.res = NOBLK) => in_use' = in_use]_vars

\* C2: after every completed operation every slot is Free (0) or Owned (1); no
\* slot is left in TransientClaim (2).
C2_NoTransientAtRest ==
    \A i \in DOMAIN in_use : in_use[i] \in {0, 1}

\* C3: a create that asks for n slots, 1 <= n <= capacity, succeeds whenever
\* some n consecutive slots are Free before the call, also when the run ends at
\* the last slot.
C3_FitsThenSucceeds ==
    [][(/\ last'.op = "create"
        /\ \E i \in DOMAIN in_use : FreeRun(in_use, i, AskedSlots(last')))
       => last'.res # NOBLK]_vars

\* the slots of the live block that starts at slot b
Range(b) == b .. (b + held[b].slots - 1)

Live == {b \in DOMAIN held : held[b].live}

\* C4: at rest after creates and releases, a slot is Owned exactly if it lies in
\* the range of exactly one live block: the ranges of distinct live blocks are
\* disjoint, every slot of a live block is Owned, no other slot is Owned.
C4_OwnedIffInOneLiveBlock ==
    /\ \A a, b \in Live : a # b => Range(a) \cap Range(b) = {}
    /\ \A b \in Live : Range(b) \subseteq DOMAIN in_use
    /\ \A i \in DOMAIN in_use :
          in_use[i] = 1 <=> Cardinality({b \in Live : i \in Range(b)}) = 1

\* C4 witness: two live blocks with a released hole below them, after a release
C4_Witness ==
    /\ last.op = "release"
    /\ Cardinality(Live) >= 2
    /\ \E b \in Live : held[b].slots >= 2
    /\ in_use[0] = 0

\* C5: a create that succeeds returns the lowest index i whose n slots were all
\* Free before the call, turns exactly those n slots from Free to Owned and
\* leaves every other slot as it was.
C5_FirstFit ==
    [][(last'.op = "create" /\ last'.res # NOBLK) =>
         LET n == AskedSlots(last')
             i == last'.res
         IN  /\ FreeRun(in_use, i, n)
             /\ \A j \in 0 .. (i - 1) : ~FreeRun(in_use, j, n)
             /\ \A k \in DOMAIN in_use :
                   in_use'[k] = IF k >= i /\ k < i + n THEN 1 ELSE in_use[k]]_vars

\* C5 witness: a two-slot block granted at slot 2 although slot 0 is free, the
\* run that starts at slot 0 being blocked by the owned slot 1
C5_Witness ==
    /\ Created
    /\ last.res = 2
    /\ AskedSlots(last) = 2
    /\ in_use[0] = 0
    /\ in_use[1] = 1

C7_DataCopiedWorkspaceZero ==
    Created =>
        LET base == Addr(last.res)
        IN  /\ \A k \in 0 .. (last.uc_size - 1) :
                  mem[base + HDR + k] = cbuf[last.buf][k]
            /\ \A w \in ws_words(base, last.uc_size, mem[base + F_WSSZ]) : mem[w] = 0

\* C7 witness: a create whose workspace region held a nonzero word before
C7_Witness ==
    /\ Created
    /\ last.dirty
    /\ mem[Addr(last.res) + F_WSSZ] > 0

\* C8: k run calls in a row on a block that packages ctx_func leave the counter
\* at its value before the first of them plus k; a run changes no other word.
C8_RunsAccumulate ==
    [][(last'.op = "run" /\ ~halted' /\ mem[Addr(last'.blk) + F_FUNC] = CTX_FUNC) =>
         LET ctr == Addr(last'.blk) + HDR
         IN  /\ mem' = [mem EXCEPT ![ctr] = mem[ctr] + 1]
             /\ mem'[ctr] = last'.base + last'.streak]_vars

\* C8 witness: the second run in a row on a block
C8_Witness ==
    /\ last.op = "run"
    /\ ~halted
    /\ last.streak = 2
    /\ mem[Addr(last.blk) + HDR] = last.base + 2

\* C9: after refresh(block, new_data) the data region equals the words of the
\* buffer new_data.
C9_RefreshTakesNewData ==
    (last.op = "refresh" /\ ~halted) =>
        \A k \in 0 .. (held[last.blk].uc_size - 1) :
            mem[Addr(last.blk) + HDR + k] = cbuf[last.buf][k]

\* C10: after reset(block) the data region equals the current contents of the
\* caller's buffer the block was created from.
C10_ResetRestoresOriginal ==
    (last.op = "reset" /\ ~halted) =>
        \A k \in 0 .. (held[last.blk].uc_size - 1) :
            mem[Addr(last.blk) + HDR + k] = cbuf[held[last.blk].buf][k]

\* the words of the workspace of the live block b: the granted words that
\* follow its header and its data
OwnWorkspace(b) ==
    ws_words(Addr(b), held[b].uc_size,
             held[b].slots * BLK_SIZE - HDR - held[b].uc_size)

\* C11: after reset_and_clear or refresh_and_clear of a block, every word of the
\* block's own workspace (the workspace_size words that follow its data) is zero.
C11_ClearZeroesWorkspace ==
    (last.op \in {"reset_clear", "refresh_clear"} /\ ~halted) =>
        \A w \in OwnWorkspace(last.blk) : mem[w] = 0

\* C12: a create followed directly by the release of the block it returned is a
\* round trip on the slot table: the release frees exactly the slots granted to
\* the block and changes no other slot, the table equals the table before the
\* create, and a create of the same total size would succeed at the same index.
C12_CreateReleaseRoundTrip ==
    [][(/\ Created
        /\ last'.op = "release"
        /\ last'.blk = last.res)
       => /\ ~halted'
          /\ \A i \in DOMAIN in_use :
                in_use'[i] = IF i \in last.res .. (last.res + AskedSlots(last) - 1)
                             THEN 0
                             ELSE in_use[i]
          /\ in_use' = last.pre
          /\ allocate_space(in_use', HDR + last.uc_size + last.ws).blk = last.res]_vars

\* a block was created behind a live block and released at once
C12_Witness ==
    /\ last.op = "release"
    /\ last.fresh
    /\ last.blk > 0
    /\ in_use[last.blk] = 0
    /\ \E b \in Live : b < last.blk

\* C13: a release request whose address is not on a slot boundary, or is on a
\* slot boundary but is not the start of a live block, changes no slot state.
C13_InvalidReleaseKeepsTable ==
    [][last'.op \in {"release_stale", "release_unaligned"} => in_use' = in_use]_vars

\* C14: run_context_and_free calls the target function exactly once when it is
\* set (not at all when it is unset), and on return every slot granted to the
\* block is Free, whether or not a function was set.
C14_RunAndFree ==
    [][last'.op = "run_free"
       => LET b == last'.blk
          IN  /\ ~halted'
              /\ last'.streak = (IF mem[Addr(b) + F_FUNC] = NULL THEN 0 ELSE 1)
              /\ mem'[Addr(b) + HDR] =
                     mem[Addr(b) + HDR] + (IF mem[Addr(b) + F_FUNC] = NULL THEN 0 ELSE 1)
              /\ \A i \in b .. (b + held[b].slots - 1) : in_use'[i] = 0]_vars

\* C15: run_context on a block whose target function is unset (NULL) is a
\* no-op: the header, the data, the workspace and the whole slot table are
\* unchanged, and the program goes on.
C15_RunUnsetIsNoOp ==
    [][(last'.op = "run" /\ mem[Addr(last'.blk) + F_FUNC] = NULL)
       => /\ mem' = mem
          /\ in_use' = in_use
          /\ ~halted']_vars

\* a block without a target function, beside another live block, was run
C15_Witness ==
    /\ last.op = "run"
    /\ held[last.blk].live
    /\ mem[Addr(last.blk) + F_FUNC] = NULL
    /\ mem[Addr(last.blk) + F_SIZE] = held[last.blk].slots * BLK_SIZE
    /\ Cardinality(Live) > 1

\* C16: reset_context and refresh_context (the variants that do not clear)
\* write the data region alone: every word of the block's workspace keeps the
\* value it had before the call.
C16_ResetKeepsWorkspace ==
    [][(last'.op \in {"reset", "refresh"} /\ ~halted')
       => \A w \in OwnWorkspace(last'.blk) : mem'[w] = mem[w]]_vars

\* the words granted to the live block b: header, data and workspace
OwnWords(b) == Addr(b) .. (Addr(b) + held[b].slots * BLK_SIZE - 1)

\* C17: blocks are isolated: a reset, reset and clear, refresh or refresh and
\* clear of a live block A leaves the header, data and workspace of every
\* other live block B unchanged, and writes no word outside the words granted
\* to A.
C17_BlockIsolation ==
    [][(last'.op \in {"reset", "reset_clear", "refresh", "refresh_clear"} /\ ~halted')
       => /\ \A b \in Live \ {last'.blk} :
                \A w \in OwnWords(b) : mem'[w] = mem[w]
          /\ \A w \in DOMAIN mem \ OwnWords(last'.blk) : mem'[w] = mem[w]]_vars

\* a create has scanned the table: its record holds the attempts of the scan
Scanned == last.op = "create"

\* C18: the scan of allocate_space terminates for every table and every slot
\* count: the index at which an attempt starts strictly increases from one
\* attempt to the next, after an attempt blocked at slot j the next attempt
\* starts beyond j, the blocking slot lies beyond the start of its attempt,
\* and the scan reads in_use fewer than 2 * BLKS times before it returns a
\* block or NULL.
C18_ScanTerminates ==
    Scanned =>
        /\ Len(last.blocks) = Len(last.starts)
        /\ \A k \in 1 .. Len(last.starts) :
              /\ last.starts[k] \in DOMAIN in_use
              /\ last.blocks[k] # NOBLK => last.blocks[k] > last.starts[k]
              /\ k < Len(last.starts) =>
                    /\ last.starts[k + 1] > last.starts[k]
                    /\ last.starts[k + 1] > last.blocks[k]
        /\ last.insp < 2 * Cap(in_use)
        /\ last.res = NOBLK \/ last.res = last.starts[Len(last.starts)]

\* a scan whose first attempt passed a free slot and was then blocked by a
\* slot in use, and that went on to a second attempt
C18_Witness ==
    /\ Scanned
    /\ Len(last.starts) >= 2
    /\ last.blocks[1] > last.starts[1] + 1
====
